---------------------------- MODULE Spec2Model ----------------------------
(***************************************************************************)
(* The training script mlflow-client/train.py as a state machine.  The     *)
(* script is linear: it configures the tracking client, trains and         *)
(* evaluates a classifier, and then, inside one `with start_run` scope,    *)
(* makes nine logging calls; five print statements follow the scope.       *)
(* The Run Recorder the script drives (open / log_param / log_metric /     *)
(* log_artifact / close) is modelled from its contract: it buffers the     *)
(* records of the open run and flushes them to the backend at close.       *)
(* Every recorder call the script makes either returns or raises; an       *)
(* exception raised in the scope's body leaves the scope through the       *)
(* scope's exit handler and then ends the process.                         *)
(***************************************************************************)
EXTENDS Integers, Sequences, FiniteSets

\* Metric values are drawn from 0..MaxMetric (the score scaled to that range).
MaxMetric == 1

\* Hyper-parameters of the classifier.
n_estimators == 100
max_depth == 5

VARIABLES
    pc,           \* position of the script
    idx,          \* index of the next body call (pc = "body") or print (pc = "print")
    exc,          \* the exception propagating, or NoExc
    accuracy, precision, recall, f1,   \* evaluation results
    handle,       \* the RunHandle: index of the run in backend, 0 before open
    status,       \* status of the run behind the handle
    buffer,       \* records accumulated on the open run
    backend,      \* the tracking backend's stored runs
    now,          \* clock
    stdout,       \* lines printed
    exitCode,     \* process exit code, NoExit while running
    openAttempts, \* number of times open was attempted
    attempts,     \* attempts[i]: number of times body call i was attempted
    logged,       \* indices of the body calls that returned normally, in order
    failedAt,     \* index of the body call that raised, 0 if none
    closes        \* closes[h]: number of seal-and-flush events for handle h

vars == <<pc, idx, exc, accuracy, precision, recall, f1, handle, status, buffer,
          backend, now, stdout, exitCode, openAttempts, attempts, logged,
          failedAt, closes>>

\* Sentinels: no exception, process still running, run not ended, score not computed.
NoExc == "none"
NoExit == -1
NoTime == -1
NoValue == -1

MetricValues == 0..MaxMetric

\* Mutant: the run is opened under the previous experiment's name.
RunNameStale == "run_1"

RunName == "run_2"

------------------------------------------------------------------------------
\* Decimal rendering of a natural number, as the recorder stores parameter values.
Digit(d) ==
    CASE d = 0 -> "0" [] d = 1 -> "1" [] d = 2 -> "2" [] d = 3 -> "3" [] d = 4 -> "4"
      [] d = 5 -> "5" [] d = 6 -> "6" [] d = 7 -> "7" [] d = 8 -> "8" [] d = 9 -> "9"

RECURSIVE NatToStr(_)
NatToStr(n) == IF n < 10 THEN Digit(n) ELSE NatToStr(n \div 10) \o Digit(n % 10)

\* Mutant: the third log_param line is a copy of the second, name not edited.
BodyDupName ==
    << [op |-> "log_param",  name |-> "model_type",      value |-> "RandomForestClassifier"],
       [op |-> "log_param",  name |-> "n_estimators",    value |-> NatToStr(n_estimators)],
       [op |-> "log_param",  name |-> "n_estimators",    value |-> NatToStr(max_depth)],
       [op |-> "log_param",  name |-> "dataset",         value |-> "iris"],
       [op |-> "log_metric", name |-> "accuracy",        value |-> accuracy],
       [op |-> "log_metric", name |-> "precision_macro", value |-> precision],
       [op |-> "log_metric", name |-> "recall_macro",    value |-> recall],
       [op |-> "log_metric", name |-> "f1_macro",        value |-> f1],
       [op |-> "log_model",  name |-> "model",           value |-> "sk_model"] >>

\* Mutant: the last log_metric line is a copy of the first, name not edited.
BodyMetricTwice ==
    << [op |-> "log_param",  name |-> "model_type",      value |-> "RandomForestClassifier"],
       [op |-> "log_param",  name |-> "n_estimators",    value |-> NatToStr(n_estimators)],
       [op |-> "log_param",  name |-> "max_depth",       value |-> NatToStr(max_depth)],
       [op |-> "log_param",  name |-> "dataset",         value |-> "iris"],
       [op |-> "log_metric", name |-> "accuracy",        value |-> accuracy],
       [op |-> "log_metric", name |-> "precision_macro", value |-> precision],
       [op |-> "log_metric", name |-> "recall_macro",    value |-> recall],
       [op |-> "log_metric", name |-> "accuracy",        value |-> f1],
       [op |-> "log_model",  name |-> "model",           value |-> "sk_model"] >>

\* The nine logging calls of the scope's body, in program order.
Body ==
    << [op |-> "log_param",  name |-> "model_type",      value |-> "RandomForestClassifier"],
       [op |-> "log_param",  name |-> "n_estimators",    value |-> NatToStr(n_estimators)],
       [op |-> "log_param",  name |-> "max_depth",       value |-> NatToStr(max_depth)],
       [op |-> "log_param",  name |-> "dataset",         value |-> "iris"],
       [op |-> "log_metric", name |-> "accuracy",        value |-> accuracy],
       [op |-> "log_metric", name |-> "precision_macro", value |-> precision],
       [op |-> "log_metric", name |-> "recall_macro",    value |-> recall],
       [op |-> "log_metric", name |-> "f1_macro",        value |-> f1],
       [op |-> "log_model",  name |-> "model",           value |-> "sk_model"] >>

\* The five lines printed after the scope.
PrintLines == << "Run completed", "Accuracy", "Precision", "Recall", "F1-score" >>

EmptyBuffer == [params |-> <<>>, metrics |-> <<>>, artifacts |-> <<>>]

HasParam(name) == \E i \in 1..Len(buffer.params) : buffer.params[i][1] = name

\* What a call can do: return ("ok") or raise one of the recorder's errors.
CallOutcomes(call) ==
    CASE call.op = "log_param" ->
            IF HasParam(call.name) THEN {"DuplicateParameter"}
            ELSE {"ok", "BackendUnavailable"}
      [] call.op = "log_metric" -> {"ok", "BackendUnavailable"}
      [] call.op = "log_model"  -> {"ok", "BackendUnavailable", "SerializationError"}

------------------------------------------------------------------------------
\* Run Recorder

open(run_name) ==
    /\ backend' = Append(backend, [name |-> run_name, status |-> "running",
                                   start |-> now, end |-> NoTime,
                                   params |-> <<>>, metrics |-> <<>>,
                                   artifacts |-> <<>>])
    /\ handle' = Len(backend) + 1
    /\ status' = "running"
    /\ buffer' = EmptyBuffer
    /\ closes' = Append(closes, 0)

log_param(name, value) ==
    buffer' = [buffer EXCEPT !.params = Append(@, <<name, value>>)]

log_metric(name, value) ==
    buffer' = [buffer EXCEPT !.metrics = Append(@, <<name, value>>)]

log_artifact(label, payload) ==
    buffer' = [buffer EXCEPT !.artifacts = Append(@, label)]

close(outcome) ==
    IF status = "running"
    THEN /\ status' = outcome
         /\ backend' = [backend EXCEPT ![handle] =
                           [@ EXCEPT !.status = outcome, !.end = now,
                                     !.params = buffer.params,
                                     !.metrics = buffer.metrics,
                                     !.artifacts = buffer.artifacts]]
         /\ closes' = [closes EXCEPT ![handle] = @ + 1]
    ELSE UNCHANGED <<status, backend, closes>>

------------------------------------------------------------------------------
\* The script

Init ==
    /\ pc = "config"
    /\ idx = 0
    /\ exc = NoExc
    /\ accuracy = NoValue /\ precision = NoValue /\ recall = NoValue /\ f1 = NoValue
    /\ handle = 0
    /\ status = "unopened"
    /\ buffer = EmptyBuffer
    /\ backend = <<>>
    /\ now = 0
    /\ stdout = <<>>
    /\ exitCode = NoExit
    /\ openAttempts = 0
    /\ attempts = [i \in 1..Len(Body) |-> 0]
    /\ logged = <<>>
    /\ failedAt = 0
    /\ closes = <<>>

Tick == now' = now + 1

\* set_tracking_uri / set_experiment: the experiment lookup reaches the backend.
Configure ==
    /\ pc = "config"
    /\ \E ok \in BOOLEAN :
          IF ok THEN pc' = "evaluate" /\ exc' = exc
          ELSE pc' = "terminate" /\ exc' = "BackendUnavailable"
    /\ Tick
    /\ UNCHANGED <<idx, accuracy, precision, recall, f1, handle, status, buffer,
                   backend, stdout, exitCode, openAttempts, attempts, logged,
                   failedAt, closes>>

\* Data, model fit, predict and the four scores.
Evaluate ==
    /\ pc = "evaluate"
    /\ \E a, p, r, f \in MetricValues :
          /\ accuracy' = a
          /\ precision' = p
          /\ recall' = r
          /\ f1' = f
    /\ pc' = "start_run"
    /\ Tick
    /\ UNCHANGED <<idx, exc, handle, status, buffer, backend, stdout, exitCode,
                   openAttempts, attempts, logged, failedAt, closes>>

\* Mutant: a failed open marks the run failed although it never ran.
StartRunMarkFailed ==
    /\ pc = "start_run"
    /\ openAttempts' = openAttempts + 1
    /\ \E ok \in BOOLEAN :
          IF ok
          THEN /\ open(RunName)
               /\ pc' = "body"
               /\ idx' = 1
               /\ exc' = exc
          ELSE /\ exc' = "BackendUnavailable"
               /\ pc' = "terminate"
               /\ status' = "failed"
               /\ UNCHANGED <<idx, handle, buffer, backend, closes>>
    /\ Tick
    /\ UNCHANGED <<accuracy, precision, recall, f1, stdout, exitCode, attempts,
                   logged, failedAt>>

\* with mlflow.start_run(run_name="run_2"): scope entry.
StartRun ==
    /\ pc = "start_run"
    /\ openAttempts' = openAttempts + 1
    /\ \E ok \in BOOLEAN :
          IF ok
          THEN /\ open(RunName)
               /\ pc' = "body"
               /\ idx' = 1
               /\ exc' = exc
          ELSE /\ exc' = "BackendUnavailable"
               /\ pc' = "terminate"
               /\ UNCHANGED <<idx, handle, status, buffer, backend, closes>>
    /\ Tick
    /\ UNCHANGED <<accuracy, precision, recall, f1, stdout, exitCode, attempts,
                   logged, failedAt>>

\* The recorder operation a body call invokes.
Invoke(call) ==
    CASE call.op = "log_param"  -> log_param(call.name, call.value)
      [] call.op = "log_metric" -> log_metric(call.name, call.value)
      [] call.op = "log_model"  -> log_artifact(call.name, call.value)

\* Mutant: the call is wrapped in try/except that swallows the error and goes on.
BodyCallSwallow ==
    /\ pc = "body"
    /\ attempts' = [attempts EXCEPT ![idx] = @ + 1]
    /\ \E outcome \in CallOutcomes(Body[idx]) :
          /\ IF outcome = "ok"
             THEN Invoke(Body[idx]) /\ logged' = Append(logged, idx)
             ELSE UNCHANGED <<buffer, logged>>
          /\ IF idx < Len(Body)
             THEN pc' = "body" /\ idx' = idx + 1
             ELSE pc' = "exit" /\ idx' = idx
          /\ UNCHANGED <<exc, failedAt>>
    /\ Tick
    /\ UNCHANGED <<accuracy, precision, recall, f1, handle, status, backend,
                   stdout, exitCode, openAttempts, closes>>

\* Mutant: the error is kept and raised only after the remaining calls have run.
BodyCallDeferred ==
    /\ pc = "body"
    /\ attempts' = [attempts EXCEPT ![idx] = @ + 1]
    /\ \E outcome \in CallOutcomes(Body[idx]) :
          /\ IF outcome = "ok"
             THEN /\ Invoke(Body[idx])
                  /\ logged' = Append(logged, idx)
                  /\ UNCHANGED <<exc, failedAt>>
             ELSE /\ exc' = (IF exc = NoExc THEN outcome ELSE exc)
                  /\ failedAt' = (IF failedAt = 0 THEN idx ELSE failedAt)
                  /\ UNCHANGED <<buffer, logged>>
          /\ IF idx < Len(Body)
             THEN pc' = "body" /\ idx' = idx + 1
             ELSE pc' = "exit" /\ idx' = idx
    /\ Tick
    /\ UNCHANGED <<accuracy, precision, recall, f1, handle, status, backend,
                   stdout, exitCode, openAttempts, closes>>

\* Mutant: a failed call is attempted again.
BodyCallRetry ==
    /\ pc = "body"
    /\ attempts' = [attempts EXCEPT ![idx] = @ + 1]
    /\ \E outcome \in CallOutcomes(Body[idx]) :
          IF outcome = "ok"
          THEN /\ Invoke(Body[idx])
               /\ logged' = Append(logged, idx)
               /\ IF idx < Len(Body)
                  THEN pc' = "body" /\ idx' = idx + 1
                  ELSE pc' = "exit" /\ idx' = idx
               /\ UNCHANGED <<exc, failedAt>>
          ELSE UNCHANGED <<pc, idx, exc, failedAt, buffer, logged>>
    /\ Tick
    /\ UNCHANGED <<accuracy, precision, recall, f1, handle, status, backend,
                   stdout, exitCode, openAttempts, closes>>

\* One logging call of the body; an exception leaves the body at once.
BodyCall ==
    /\ pc = "body"
    /\ attempts' = [attempts EXCEPT ![idx] = @ + 1]
    /\ \E outcome \in CallOutcomes(Body[idx]) :
          IF outcome = "ok"
          THEN /\ Invoke(Body[idx])
               /\ logged' = Append(logged, idx)
               /\ IF idx < Len(Body)
                  THEN pc' = "body" /\ idx' = idx + 1
                  ELSE pc' = "exit" /\ idx' = idx
               /\ UNCHANGED <<exc, failedAt>>
          ELSE /\ exc' = outcome
               /\ failedAt' = idx
               /\ pc' = "exit"
               /\ UNCHANGED <<idx, buffer, logged>>
    /\ Tick
    /\ UNCHANGED <<accuracy, precision, recall, f1, handle, status, backend,
                   stdout, exitCode, openAttempts, closes>>

\* The outcome the scope's exit handler closes the run with.
Outcome(e) == IF e = NoExc THEN "completed" ELSE "failed"

\* Mutant: start_run without `with`, end_run as the last statement of the body:
\* an exception skips it.
ExitScopeNormalOnly ==
    /\ pc = "exit"
    /\ IF exc = NoExc
       THEN close("completed") /\ pc' = "print" /\ idx' = 1
       ELSE UNCHANGED <<status, backend, closes>> /\ pc' = "terminate" /\ idx' = idx
    /\ Tick
    /\ UNCHANGED <<exc, accuracy, precision, recall, f1, handle, buffer, stdout,
                   exitCode, openAttempts, attempts, logged, failedAt>>

\* Mutant: start_run without `with` and no end_run at all.
ExitScopeLeak ==
    /\ pc = "exit"
    /\ UNCHANGED <<status, backend, closes>>
    /\ IF exc = NoExc
       THEN pc' = "print" /\ idx' = 1
       ELSE pc' = "terminate" /\ idx' = idx
    /\ Tick
    /\ UNCHANGED <<exc, accuracy, precision, recall, f1, handle, buffer, stdout,
                   exitCode, openAttempts, attempts, logged, failedAt>>

\* Scope exit: runs on every path out of the body; the exception, if any,
\* goes on propagating afterwards.
ExitScope ==
    /\ pc = "exit"
    /\ close(Outcome(exc))
    /\ IF exc = NoExc
       THEN pc' = "print" /\ idx' = 1
       ELSE pc' = "terminate" /\ idx' = idx
    /\ Tick
    /\ UNCHANGED <<exc, accuracy, precision, recall, f1, handle, buffer, stdout,
                   exitCode, openAttempts, attempts, logged, failedAt>>

\* Mutant: a log_metric line dedented out of the scope, next to the output of
\* the score it logs.
PrintLineAndLog ==
    /\ pc = "print"
    /\ stdout' = Append(stdout, PrintLines[idx])
    /\ backend' = IF idx = 2
                  THEN [backend EXCEPT ![handle].metrics = Append(@, <<"accuracy", accuracy>>)]
                  ELSE backend
    /\ IF idx < Len(PrintLines)
       THEN pc' = "print" /\ idx' = idx + 1
       ELSE pc' = "terminate" /\ idx' = idx
    /\ Tick
    /\ UNCHANGED <<exc, accuracy, precision, recall, f1, handle, status, buffer,
                   exitCode, openAttempts, attempts, logged, failedAt, closes>>

\* One of the five output statements after the scope.
PrintLine ==
    /\ pc = "print"
    /\ stdout' = Append(stdout, PrintLines[idx])
    /\ IF idx < Len(PrintLines)
       THEN pc' = "print" /\ idx' = idx + 1
       ELSE pc' = "terminate" /\ idx' = idx
    /\ Tick
    /\ UNCHANGED <<exc, accuracy, precision, recall, f1, handle, status, buffer,
                   backend, exitCode, openAttempts, attempts, logged, failedAt,
                   closes>>

\* Process exit: 0 at the end of the script, non-zero on an uncaught exception.
Terminate ==
    /\ pc = "terminate"
    /\ exitCode' = IF exc = NoExc THEN 0 ELSE 1
    /\ pc' = "done"
    /\ Tick
    /\ UNCHANGED <<idx, exc, accuracy, precision, recall, f1, handle, status,
                   buffer, backend, stdout, openAttempts, attempts, logged,
                   failedAt, closes>>

Next ==
    \/ Configure
    \/ Evaluate
    \/ StartRun
    \/ BodyCall
    \/ ExitScope
    \/ PrintLine
    \/ Terminate

Spec == Init /\ [][Next]_vars

------------------------------------------------------------------------------
\* Vocabulary of the properties

Terminal == {"completed", "failed"}

\* The script has left the scope of a run it opened.
AfterScope == handle # 0 /\ pc \in {"print", "terminate", "done"}

\* The script is inside the scope (body not yet left through the exit handler).
InScope == handle # 0 /\ pc \in {"body", "exit"}

CallIndices == 1..Len(Body)

\* The <<name, value>> records of the calls in s (indices into Body) made with op.
RECURSIVE RecordsOf(_, _)
RecordsOf(s, op) ==
    IF s = <<>> THEN <<>>
    ELSE LET c == Body[Head(s)]
         IN  (IF c.op = op THEN << <<c.name, c.value>> >> ELSE <<>>)
                \o RecordsOf(Tail(s), op)

NamesDistinct(recs) ==
    \A i, j \in 1..Len(recs) : i # j => recs[i][1] # recs[j][1]

\* Index of the first log_metric call of the body.
FirstMetric ==
    CHOOSE i \in CallIndices :
        /\ Body[i].op = "log_metric"
        /\ \A j \in 1..(i - 1) : Body[j].op # "log_metric"

Printed(line) == \E k \in 1..Len(stdout) : stdout[k] = line

------------------------------------------------------------------------------
\* C1: once the script has left the scope of a run it opened, the run is never
\* running: its status (in the process and in the backend) is completed when the
\* body finished normally and failed when a body call raised.
C1_NoRunLeftRunning ==
    AfterScope =>
        /\ status \in Terminal
        /\ backend[handle].status = status
        /\ (exc = NoExc => status = "completed")
        /\ (failedAt # 0 => status = "failed" /\ exc # NoExc)

\* C1 witness: log_model raised SerializationError after eight calls returned,
\* the process has ended and the run is failed.
C1_Witness ==
    /\ pc = "done"
    /\ failedAt = 9
    /\ exc = "SerializationError"
    /\ status = "failed"

\* C2: every opened run is closed (sealed and flushed) exactly once: never
\* before the scope is left, once when it has been left, never twice.
C2_CloseExactlyOnce ==
    /\ Len(closes) = Len(backend)
    /\ \A h \in 1..Len(closes) : closes[h] <= 1
    /\ (InScope => closes[handle] = 0)
    /\ (AfterScope => closes[handle] = 1)

\* C2 witness: the first log_metric raised, the scope was left by the
\* exception, and the run has one close.
C2_Witness ==
    /\ pc = "done"
    /\ failedAt = 5
    /\ closes[handle] = 1

\* C3: the status of a run only moves unopened -> running, running -> completed
\* and running -> failed; a run enters the backend as running; completed and
\* failed are never left.
C3_StatusStep ==
    /\ status' # status =>
          <<status, status'>> \in { <<"unopened", "running">>,
                                    <<"running", "completed">>,
                                    <<"running", "failed">> }
    /\ Len(backend') >= Len(backend)
    /\ \A h \in 1..Len(backend') :
          IF h <= Len(backend)
          THEN backend'[h].status # backend[h].status =>
                  /\ backend[h].status = "running"
                  /\ backend'[h].status \in Terminal
          ELSE backend'[h].status = "running"

C3_StatusTransitions == [][C3_StatusStep]_vars

\* C3 witness: a run that was running has been moved to failed by the exit
\* handler after a log_param raised.
C3_Witness ==
    /\ status = "failed"
    /\ backend[handle].status = "failed"
    /\ failedAt = 2
    /\ pc = "terminate"

\* C4: after close the backend's record of the run holds exactly the parameters
\* and metrics of the calls that returned, in order, none lost and none twice;
\* on the normal path these are the four parameters and the four metrics.
C4_BackendEqualsLogged ==
    status \in Terminal =>
        LET r == backend[handle] IN
        /\ r.params = RecordsOf(logged, "log_param")
        /\ r.metrics = RecordsOf(logged, "log_metric")
        /\ NamesDistinct(r.params)
        /\ NamesDistinct(r.metrics)
        /\ (status = "completed" =>
              /\ r.params = << <<"model_type", "RandomForestClassifier">>,
                               <<"n_estimators", "100">>,
                               <<"max_depth", "5">>,
                               <<"dataset", "iris">> >>
              /\ r.metrics = << <<"accuracy", accuracy>>,
                                <<"precision_macro", precision>>,
                                <<"recall_macro", recall>>,
                                <<"f1_macro", f1>> >>)

\* C4 witness: the run completed and the output that follows is under way.
C4_Witness ==
    /\ status = "completed"
    /\ pc = "print"
    /\ idx = 1
    /\ Len(backend[handle].metrics) = 4

\* C5: once the scope is left, either the run is completed and the backend
\* holds all four parameters, all four metrics and the model artifact, or the
\* run is failed and no call after the failing one was attempted; the backend
\* never shows a run that is not failed with part of the records.
C5_AllOrFailed ==
    AfterScope =>
        LET r == backend[handle] IN
        \/ /\ status = "completed"
           /\ r.status = "completed"
           /\ failedAt = 0
           /\ Len(r.params) = 4
           /\ Len(r.metrics) = 4
           /\ r.artifacts = << "model" >>
           /\ logged = << 1, 2, 3, 4, 5, 6, 7, 8, 9 >>
        \/ /\ status = "failed"
           /\ r.status = "failed"
           /\ failedAt # 0
           /\ \A j \in CallIndices : j > failedAt => attempts[j] = 0

\* C5 witness: log_model failed with the backend unreachable after the eight
\* earlier calls; the failed run holds the eight records and no artifact.
C5_Witness ==
    /\ pc = "done"
    /\ failedAt = 9
    /\ exc = "BackendUnavailable"
    /\ Len(backend[handle].metrics) = 4
    /\ backend[handle].artifacts = <<>>

\* C6: a parameter, once set on the run, keeps its name and value; names are
\* pairwise distinct; and no execution of the script raises DuplicateParameter.
C6_ParamsKept ==
    /\ Len(buffer'.params) >= Len(buffer.params)
    /\ \A i \in 1..Len(buffer.params) : buffer'.params[i] = buffer.params[i]

C6_State ==
    /\ NamesDistinct(buffer.params)
    /\ exc # "DuplicateParameter"
    /\ \A h \in 1..Len(backend) : NamesDistinct(backend[h].params)

C6_ParamSetOnce == [] C6_State /\ [][C6_ParamsKept]_vars

\* C6 witness: all four parameters are set and the first metric is next.
C6_Witness ==
    /\ pc = "body"
    /\ idx = 5
    /\ Len(buffer.params) = 4

\* C7: when a call raises before the first log_metric call, no metric call is
\* ever attempted, the run holds no metric, and once the scope is left the run
\* is closed, failed, with zero metrics in the backend.
C7_ErrorBeforeMetrics ==
    (failedAt # 0 /\ failedAt < FirstMetric) =>
        /\ pc # "body"
        /\ buffer.metrics = <<>>
        /\ \A j \in CallIndices : Body[j].op = "log_metric" => attempts[j] = 0
        /\ (AfterScope =>
              /\ status = "failed"
              /\ closes[handle] = 1
              /\ backend[handle].status = "failed"
              /\ backend[handle].metrics = <<>>)

\* C7 witness: the fourth log_param raised and the failed run is closed.
C7_Witness ==
    /\ failedAt = 4
    /\ pc = "done"
    /\ status = "failed"
    /\ Len(backend[handle].params) = 3

\* C8: at most one run is opened and at most one is running at any time; a
\* successful invocation leaves one run, named "run_2", completed, with one
\* artifact stored under "model".
C8_OneRun ==
    /\ Cardinality({h \in 1..Len(backend) : backend[h].status = "running"}) <= 1
    /\ Len(backend) <= 1
    /\ openAttempts <= 1
    /\ (pc = "done" /\ exitCode = 0 =>
          /\ Len(backend) = 1
          /\ backend[1].name = "run_2"
          /\ backend[1].status = "completed"
          /\ backend[1].artifacts = << "model" >>)

\* C8 witness: a successful invocation has ended.
C8_Witness ==
    /\ pc = "done"
    /\ exitCode = 0
    /\ Len(backend) = 1

\* C9: every failure is fatal and nothing is retried: open and each body call
\* are attempted at most once, after a failure the script never resumes and no
\* later call is attempted, a failed execution exits non-zero, "Run completed"
\* is printed only after the scope was left normally with the run completed,
\* and a failed open creates no run and is followed by no logging call.
C9_FatalNoRetry ==
    /\ openAttempts <= 1
    /\ \A i \in CallIndices : attempts[i] <= 1
    /\ (exc # NoExc => pc \in {"exit", "terminate", "done"})
    /\ (failedAt # 0 => \A j \in CallIndices : j > failedAt => attempts[j] = 0)
    /\ (pc = "done" => (exitCode # 0 <=> exc # NoExc))
    /\ (Printed("Run completed") =>
          /\ status = "completed"
          /\ exc = NoExc
          /\ closes[handle] = 1)
    /\ (exc # NoExc /\ handle = 0 =>
          /\ backend = <<>>
          /\ status = "unopened"
          /\ \A i \in CallIndices : attempts[i] = 0)

\* C9 witness: open failed with the backend unreachable and the process ended
\* with a non-zero exit code.
C9_Witness ==
    /\ pc = "done"
    /\ openAttempts = 1
    /\ handle = 0
    /\ exitCode = 1

\* C10: every logging call is made while the run is running, the records
\* change only while it is running, and once the run is sealed its status,
\* timestamps, parameters, metrics and artifacts never change again.
C10_Step ==
    /\ attempts' # attempts => status = "running" /\ backend[handle].status = "running"
    /\ buffer' # buffer => status = "running"
    /\ status \in Terminal => UNCHANGED <<status, buffer, backend, handle>>

C10_SealedAfterScope == [][C10_Step]_vars

\* C10 witness: the run is sealed and three of the five lines are printed.
C10_Witness ==
    /\ status = "completed"
    /\ Len(stdout) = 3
    /\ backend[handle].end # NoTime

==============================================================================
